---- MODULE Spec2Model ----
(***************************************************************************)
(* Model of run_gemini_and_create_pr.py: one run of main().                *)
(*                                                                         *)
(* Python values are represented as follows.                               *)
(*   - str values that the script only passes around or tests for         *)
(*     emptiness (prompt, title, body, base branch, token) are TLA+        *)
(*     strings;                                                            *)
(*   - str values that the script builds or rewrites (the repository URL,  *)
(*     the branch name, the API endpoint, printed lines) are sequences of  *)
(*     string tokens, so that str.replace, bytes.hex and concatenation     *)
(*     are computed and not assumed;                                       *)
(*   - an optional value (None or a value) is <<>> or <<v>>.               *)
(***************************************************************************)
EXTENDS Integers, Sequences, FiniteSets, TLC

VARIABLES
    argv,            \* the command line: prompt and the options given
    environ,         \* os.environ.get("GITHUB_TOKEN"): <<>> or <<token>>
    gemini_on_path,  \* whether 'gemini' resolves on PATH
    pc,              \* position of main()
    args,            \* argparse namespace after parse_args()
    pr_title,        \* main: pr_title
    new_branch,      \* main: new_branch (<<>> before it is generated)
    calls,           \* external operations attempted so far, in order
    posted,          \* requests handed to requests.post
    response,        \* what requests.post gave back: <<>> or <<response>>
    localBranches,   \* branches of the local repository
    head,            \* branch currently checked out
    commits,         \* commits made: [branch, message]
    remoteBranches,  \* branches of the remote 'origin'
    stdout,          \* lines printed
    exitCode         \* process exit status, NotExited while running

vars == <<argv, environ, gemini_on_path, pc, args, pr_title, new_branch,
          calls, posted, response, localBranches, head, commits, remoteBranches,
          stdout, exitCode>>

----------------------------------------------------------------------------
(* Bounds and sample inputs *)

MaxNameLen == 2

NotExited == 0 - 1

None == <<>>

Some(v) == <<v>>

NameTokens == {"alice", "github", ".com"}

ByteSamples == {9, 171}

Prompts == {"add retries", "fix typo"}

Titles == {None, Some(""), Some("Retry on 503")}

Branches == {None, Some("dev")}

Bodies == {None, Some("see prompt")}

Tokens == {None, Some(""), Some("ghp_x")}

RECURSIVE SeqsUpTo(_, _)
SeqsUpTo(S, n) ==
    IF n = 0 THEN {<<>>}
    ELSE LET shorter == SeqsUpTo(S, n - 1)
         IN  shorter \cup {Append(s, x) : s \in shorter, x \in S}

DEFAULT_REPO ==
    <<"https://", "github", ".com", "/", "maigovannon", "/", "buildpacks-abhinasu">>

DEFAULT_BRANCH == "main"

DEFAULT_BODY == "PR created by Gemini CLI automation script."

RepoUrls ==
    {<<"https://", "github", ".com", "/", "alice", "/">> \o n :
        n \in SeqsUpTo(NameTokens, MaxNameLen) \ {<<>>}}

Repos == {None} \cup {Some(u) : u \in RepoUrls}

----------------------------------------------------------------------------
(* Pure helpers *)

HexDigits == <<"0", "1", "2", "3", "4", "5", "6", "7",
               "8", "9", "a", "b", "c", "d", "e", "f">>

\* variant: hexadecimal digits without zero padding, as hex(b)[2:] gives
RECURSIVE BytesHex_Unpadded(_)
BytesHex_Unpadded(bs) ==
    IF bs = <<>> THEN <<>>
    ELSE (IF Head(bs) < 16 THEN <<HexDigits[Head(bs) + 1]>>
          ELSE <<HexDigits[(Head(bs) \div 16) + 1], HexDigits[(Head(bs) % 16) + 1]>>)
         \o BytesHex_Unpadded(Tail(bs))

\* bytes.hex(): two lowercase hexadecimal digits per byte
RECURSIVE BytesHex(_)
BytesHex(bs) ==
    IF bs = <<>> THEN <<>>
    ELSE <<HexDigits[(Head(bs) \div 16) + 1], HexDigits[(Head(bs) % 16) + 1]>>
         \o BytesHex(Tail(bs))

NewBranch(bs) == <<"gemini-changes-">> \o BytesHex(bs)

IsPrefixAt(s, i, pat) ==
    /\ i + Len(pat) - 1 <= Len(s)
    /\ \A k \in 1..Len(pat) : s[i + k - 1] = pat[k]

\* str.replace(old, new): every non-overlapping occurrence, left to right
RECURSIVE ReplaceFrom(_, _, _, _)
ReplaceFrom(s, i, old, new) ==
    IF i > Len(s) THEN <<>>
    ELSE IF IsPrefixAt(s, i, old)
         THEN new \o ReplaceFrom(s, i + Len(old), old, new)
         ELSE <<s[i]>> \o ReplaceFrom(s, i + 1, old, new)

Replace(s, old, new) == ReplaceFrom(s, 1, old, new)

WEB_HOST == <<"github", ".com">>

API_HOST == <<"api.", "github", ".com", "/repos">>

ApiUrl(repo_url) == Replace(repo_url, WEB_HOST, API_HOST) \o <<"/pulls">>

\* Python truthiness of an optional str: None and "" are false
Truthy(opt) == opt # None /\ opt[1] # ""

\* variant: 'is not None' in place of truthiness
PrTitle_AnyGiven(title, prompt) == IF title # None THEN title[1] ELSE prompt

PrTitle(title, prompt) == IF Truthy(title) THEN title[1] ELSE prompt

\* variant: 'is None' in place of 'not github_token'
TokenMissing_OnlyNone(tok) == tok = None

TokenMissing(tok) == ~Truthy(tok)

OrDefault(opt, default) == IF opt = None THEN default ELSE opt[1]

DecDigits == <<"0", "1", "2", "3", "4", "5", "6", "7", "8", "9">>

\* str(int) for a non-negative integer
RECURSIVE DecStr(_)
DecStr(n) ==
    IF n < 10 THEN <<DecDigits[n + 1]>>
    ELSE DecStr(n \div 10) \o <<DecDigits[(n % 10) + 1]>>

----------------------------------------------------------------------------
(* The REST API: sample responses, and what response.json() makes of them *)

BODY_CREATED == "{\"html_url\": \"https://example/pr/1\"}"

BODY_INVALID == "{\"message\": \"Validation Failed\"}"

BODY_GATEWAY == "<html>502 Bad Gateway</html>"

Responses ==
    { [status_code |-> 201, text |-> BODY_CREATED],
      [status_code |-> 422, text |-> BODY_INVALID],
      [status_code |-> 502, text |-> BODY_GATEWAY] }

\* requests.post either raises (no response) or returns a response
PostOutcomes == {None} \cup {Some(r) : r \in Responses}

\* json.loads on the sample bodies: Some(dict as key/value pairs), or None
\* where the text is not JSON and the call raises JSONDecodeError
JsonLoads(text) ==
    CASE text = BODY_CREATED -> Some(<< <<"html_url", "https://example/pr/1">> >>)
      [] text = BODY_INVALID -> Some(<< <<"message", "Validation Failed">> >>)
      [] OTHER -> None

HasKey(obj, key) == \E i \in 1..Len(obj) : obj[i][1] = key

GetItem(obj, key) == obj[CHOOSE i \in 1..Len(obj) : obj[i][1] = key][2]

\* str(dict) as print shows it: single-quoted keys and values
RECURSIVE ItemsRepr(_)
ItemsRepr(obj) ==
    IF obj = <<>> THEN <<>>
    ELSE <<"'", obj[1][1], "': '", obj[1][2], "'">>
         \o (IF Len(obj) > 1 THEN <<", ">> ELSE <<>>)
         \o ItemsRepr(Tail(obj))

DictRepr(obj) == <<"{">> \o ItemsRepr(obj) \o <<"}">>

----------------------------------------------------------------------------
(* Initial state: a command line, an environment, a repository *)

Init ==
    /\ argv \in [prompt : Prompts, repo : Repos, branch : Branches,
                 title : Titles, body : Bodies]
    /\ environ \in Tokens
    /\ gemini_on_path \in BOOLEAN
    /\ pc = "parse_args"
    /\ args = [prompt |-> "", repo |-> <<>>, branch |-> "", title |-> None, body |-> ""]
    /\ pr_title = ""
    /\ new_branch = <<>>
    /\ calls = <<>>
    /\ posted = <<>>
    /\ response = None
    /\ localBranches = {<<"main">>}
    /\ head = <<"main">>
    /\ commits = {}
    /\ remoteBranches = {<<"main">>}
    /\ stdout = <<>>
    /\ exitCode = NotExited

----------------------------------------------------------------------------
(* Steps of main() *)

Call(cmd, arg, result) == [cmd |-> cmd, arg |-> arg, result |-> result]

\* variant: check=False, the return status is ignored
CheckTrue_Unchecked(ok, next) == pc' = next /\ exitCode' = exitCode

\* variant: a failed command is run again
CheckTrue_Retry(ok, next) ==
    IF ok THEN pc' = next /\ exitCode' = exitCode
    ELSE pc' = pc /\ exitCode' = exitCode

\* subprocess.run(..., check=True) in main: a failure raises, nothing
\* catches it, and the interpreter ends with status 1
CheckTrue(ok, next) ==
    IF ok THEN pc' = next /\ exitCode' = exitCode
    ELSE pc' = "exit" /\ exitCode' = 1

\* variant: CalledProcessError is reported but the script carries on
GeminiHandled_SwallowsFailure(result, next) ==
    IF result # "notfound" THEN pc' = next /\ exitCode' = exitCode
    ELSE pc' = "exit" /\ exitCode' = 1

\* exit(1) in run_gemini_cli on FileNotFoundError and CalledProcessError
GeminiHandled(result, next) ==
    IF result = "ok" THEN pc' = next /\ exitCode' = exitCode
    ELSE pc' = "exit" /\ exitCode' = 1

\* variant: the pushed branch is deleted when creating the pull request fails
GitUntouched_DeletesBranch ==
    /\ remoteBranches' = IF pc = "create_pr" /\ response' # <<[status_code |-> 201, text |-> BODY_CREATED]>>
                         THEN remoteBranches \ {new_branch}
                         ELSE remoteBranches
    /\ UNCHANGED <<localBranches, head, commits>>

\* create_github_pr and run_gemini_cli run no git command
GitUntouched == UNCHANGED <<localBranches, head, commits, remoteBranches>>

ParseArgs ==
    /\ pc = "parse_args"
    /\ \E bs \in [1..4 -> ByteSamples] :
        LET a == [prompt |-> argv.prompt,
                  repo   |-> OrDefault(argv.repo, DEFAULT_REPO),
                  branch |-> OrDefault(argv.branch, DEFAULT_BRANCH),
                  title  |-> argv.title,
                  body   |-> OrDefault(argv.body, DEFAULT_BODY)]
        IN  /\ args' = a
            /\ pr_title' = PrTitle(a.title, a.prompt)
            /\ new_branch' = NewBranch(bs)
            /\ stdout' = Append(stdout,
                   <<"Creating and switching to new branch: ">> \o NewBranch(bs))
    /\ pc' = "checkout"
    /\ UNCHANGED <<argv, environ, gemini_on_path, calls, posted, localBranches,
                   head, commits, remoteBranches, exitCode, response>>

GitCheckout ==
    /\ pc = "checkout"
    /\ \E ok \in BOOLEAN :
        /\ calls' = Append(calls,
               Call("git checkout -b", new_branch, IF ok THEN "ok" ELSE "fail"))
        /\ localBranches' = IF ok THEN localBranches \cup {new_branch}
                            ELSE localBranches
        /\ head' = IF ok THEN new_branch ELSE head
        /\ CheckTrue(ok, "gemini")
    /\ UNCHANGED <<argv, environ, gemini_on_path, args, pr_title, new_branch,
                   posted, response, commits, remoteBranches, stdout>>

RunGeminiCli ==
    /\ pc = "gemini"
    /\ \E result \in IF gemini_on_path THEN {"ok", "fail"} ELSE {"notfound"} :
        /\ calls' = Append(calls, Call("gemini --yolo", <<args.prompt>>, result))
        /\ stdout' = stdout
              \o << <<"Running Gemini CLI with prompt: ", args.prompt>> >>
              \o << CASE result = "ok" -> <<"Gemini CLI executed successfully.">>
                      [] result = "notfound" ->
                           <<"Error: 'gemini' command not found. Make sure the Gemini CLI is installed and in your PATH.">>
                      [] OTHER -> <<"Error executing Gemini CLI: ", "CalledProcessError">> >>
        /\ GeminiHandled(result, "add")
    /\ GitUntouched
    /\ UNCHANGED <<argv, environ, gemini_on_path, args, pr_title, new_branch,
                   posted, response>>

GitAdd ==
    /\ pc = "add"
    /\ \E ok \in BOOLEAN :
        /\ calls' = Append(calls, Call("git add", <<".">>, IF ok THEN "ok" ELSE "fail"))
        /\ CheckTrue(ok, "commit")
    /\ stdout' = Append(stdout, <<"Staging changes...">>)
    /\ UNCHANGED <<argv, environ, gemini_on_path, args, pr_title, new_branch,
                   posted, response, localBranches, head, commits, remoteBranches>>

GitCommit ==
    /\ pc = "commit"
    /\ \E ok \in BOOLEAN :
        /\ calls' = Append(calls,
               Call("git commit -m", <<pr_title>>, IF ok THEN "ok" ELSE "fail"))
        /\ commits' = IF ok THEN commits \cup {[branch |-> head, message |-> pr_title]}
                      ELSE commits
        /\ CheckTrue(ok, "push")
    /\ stdout' = Append(stdout, <<"Committing changes...">>)
    /\ UNCHANGED <<argv, environ, gemini_on_path, args, pr_title, new_branch,
                   posted, response, localBranches, head, remoteBranches>>

GitPush ==
    /\ pc = "push"
    /\ \E ok \in BOOLEAN :
        /\ calls' = Append(calls,
               Call("git push -u origin", new_branch, IF ok THEN "ok" ELSE "fail"))
        /\ remoteBranches' = IF ok THEN remoteBranches \cup {new_branch}
                             ELSE remoteBranches
        /\ CheckTrue(ok, "create_pr")
    /\ stdout' = Append(stdout,
           <<"Pushing branch ">> \o new_branch \o <<" to origin...">>)
    /\ UNCHANGED <<argv, environ, gemini_on_path, args, pr_title, new_branch,
                   posted, response, localBranches, head, commits>>

\* create_github_pr after the POST returned: the lines printed, and whether
\* the function returns (response.json() and ["html_url"] may raise)
ReportResponse(r) ==
    LET js == JsonLoads(r.text)
    IN  IF r.status_code = 201
        THEN IF js # None /\ HasKey(js[1], "html_url")
             THEN [lines |-> << <<"Pull Request created successfully:">>,
                                <<GetItem(js[1], "html_url")>> >>,
                   returned |-> TRUE]
             ELSE [lines |-> << <<"Pull Request created successfully:">> >>,
                   returned |-> FALSE]
        ELSE IF js # None
             THEN [lines |-> << <<"Error creating Pull Request: ">> \o DecStr(r.status_code),
                                DictRepr(js[1]) >>,
                   returned |-> TRUE]
             ELSE [lines |-> << <<"Error creating Pull Request: ">> \o DecStr(r.status_code) >>,
                   returned |-> FALSE]

CreateGithubPr ==
    /\ pc = "create_pr"
    /\ IF TokenMissing(environ)
       THEN /\ stdout' = stdout \o
                   << <<"Error: GITHUB_TOKEN environment variable not set.">>,
                      <<"Please set it to your GitHub Personal Access Token with 'repo' scope.">> >>
            /\ exitCode' = 1
            /\ UNCHANGED <<calls, posted, response>>
       ELSE \E outcome \in PostOutcomes :
            LET api_url == ApiUrl(args.repo)
                data == [title |-> pr_title, body |-> args.body,
                         head |-> new_branch, base |-> args.branch]
                request == [url |-> api_url,
                            authorization |-> <<"token ", environ[1]>>,
                            data |-> data]
                creating == <<"Creating Pull Request to ">> \o args.repo
                            \o <<" from '">> \o new_branch
                            \o <<"' to '", args.branch, "'">>
            IN  /\ calls' = Append(calls,
                       Call("POST", api_url,
                            IF outcome = None THEN "raise" ELSE "response"))
                /\ posted' = Append(posted, request)
                /\ response' = outcome
                /\ stdout' = stdout \o <<creating>> \o
                       (IF outcome = None THEN <<>>
                        ELSE ReportResponse(outcome[1]).lines)
                /\ exitCode' = IF outcome # None /\ ReportResponse(outcome[1]).returned
                               THEN 0 ELSE 1
    /\ pc' = "exit"
    /\ GitUntouched
    /\ UNCHANGED <<argv, environ, gemini_on_path, args, pr_title, new_branch>>

Next ==
    \/ ParseArgs
    \/ GitCheckout
    \/ RunGeminiCli
    \/ GitAdd
    \/ GitCommit
    \/ GitPush
    \/ CreateGithubPr

Spec == Init /\ [][Next]_vars

----------------------------------------------------------------------------
(* Vocabulary of the properties *)

CHECKOUT == "git checkout -b"

GEMINI == "gemini --yolo"

ADD == "git add"

COMMIT == "git commit -m"

PUSH == "git push -u origin"

POST == "POST"

StepOrder == <<CHECKOUT, GEMINI, ADD, COMMIT, PUSH, POST>>

Attempted(cmd) == \E i \in 1..Len(calls) : calls[i].cmd = cmd

Succeeded(cmd) == \E i \in 1..Len(calls) : calls[i].cmd = cmd /\ calls[i].result = "ok"

Count(cmd) == Cardinality({i \in 1..Len(calls) : calls[i].cmd = cmd})

Printed(line) == \E i \in 1..Len(stdout) : stdout[i] = line

TokenUnset == environ = <<>> \/ environ = <<"">>

Steps1To4Ok == Succeeded(CHECKOUT) /\ Succeeded(GEMINI) /\ Succeeded(ADD)
               /\ Succeeded(COMMIT) /\ Succeeded(PUSH)

LowerHex == {"0", "1", "2", "3", "4", "5", "6", "7", "8", "9",
             "a", "b", "c", "d", "e", "f"}

----------------------------------------------------------------------------
(* C1 *)

\* C1 as stated: with GITHUB_TOKEN unset or empty the run ends with status 1
\* and neither git push nor the HTTP POST has been attempted when it ends.
C1_NoNetworkCallWithoutToken ==
    (pc = "exit" /\ TokenUnset) =>
        exitCode = 1 /\ ~Attempted(PUSH) /\ ~Attempted(POST)

\* C1 amended: with GITHUB_TOKEN unset or empty the HTTP POST is never
\* attempted and the run ends with status 1 (git push may have run before
\* the token is looked up).
C1_NoPostWithoutToken ==
    TokenUnset =>
        /\ ~Attempted(POST)
        /\ posted = <<>>
        /\ pc = "exit" => exitCode = 1

C1_Witness ==
    /\ pc = "exit"
    /\ environ = <<"">>
    /\ Succeeded(PUSH)
    /\ exitCode = 1
    /\ Printed(<<"Error: GITHUB_TOKEN environment variable not set.">>)

----------------------------------------------------------------------------
(* C2 *)

GeminiMissingOrFailed ==
    \/ ~gemini_on_path
    \/ \E i \in 1..Len(calls) : calls[i].cmd = GEMINI /\ calls[i].result # "ok"

\* C2: when the gemini binary is not on PATH, or runs and returns non-zero,
\* none of git add, git commit, git push or the POST is ever attempted, and
\* the run ends with status 1.
C2_GeminiFailureStopsRun ==
    GeminiMissingOrFailed =>
        /\ ~Attempted(ADD) /\ ~Attempted(COMMIT) /\ ~Attempted(PUSH) /\ ~Attempted(POST)
        /\ pc = "exit" => exitCode = 1
        /\ Attempted(GEMINI) => pc = "exit"

C2_Witness ==
    /\ pc = "exit"
    /\ exitCode = 1
    /\ gemini_on_path
    /\ Len(calls) = 2
    /\ calls[2] = Call(GEMINI, <<args.prompt>>, "fail")

----------------------------------------------------------------------------
(* C3 *)

\* C3: the operations are attempted in the order checkout, gemini, add,
\* commit, push, POST; each is attempted only after all earlier ones
\* succeeded, and a failed checkout, gemini, add, commit or push ends the run.
C3_LinearChain ==
    /\ Len(calls) <= Len(StepOrder)
    /\ \A i \in 1..Len(calls) :
        /\ calls[i].cmd = StepOrder[i]
        /\ i < Len(calls) => calls[i].result = "ok"
        /\ (calls[i].cmd # POST /\ calls[i].result # "ok") => pc = "exit"

C3_Witness ==
    /\ pc = "exit"
    /\ Len(calls) = 4
    /\ calls[3].result = "ok"
    /\ calls[4].cmd = COMMIT
    /\ calls[4].result = "fail"

----------------------------------------------------------------------------
(* C4 *)

\* C4 as stated: whenever the API answers with some status (or is never
\* asked), the exit status is 0 exactly when checkout, gemini, add, commit
\* and push all succeeded and the token is present, and is 1 otherwise.
C4_ExitCode ==
    (pc = "exit" /\ (Attempted(POST) => response # <<>>)) =>
        /\ exitCode \in {0, 1}
        /\ exitCode = 0 <=> (Steps1To4Ok /\ ~TokenUnset)

----------------------------------------------------------------------------
(* C5 *)

\* C5 as stated: once the POST has returned, the html_url is printed exactly
\* when the status is 201, any other status has its code and its body
\* printed, and the run ends with status 0 either way.
C5_ReportAndReturn ==
    (pc = "exit" /\ response # <<>>) =>
        LET r == response[1]
        IN  /\ r.status_code = 201 => Printed(<<"https://example/pr/1">>)
            /\ r.status_code # 201 =>
                /\ ~Printed(<<"https://example/pr/1">>)
                /\ Printed(<<"Error creating Pull Request: ">> \o DecStr(r.status_code))
                /\ \/ Printed(<<r.text>>)
                   \/ /\ JsonLoads(r.text) # <<>>
                      /\ Printed(DictRepr(JsonLoads(r.text)[1]))
            /\ exitCode = 0

----------------------------------------------------------------------------
(* C6 *)

\* C6: each of checkout, gemini, add, commit, push and the POST is attempted
\* at most once in a run, whatever fails.
C6_NoRetry ==
    /\ \A k \in 1..Len(StepOrder) : Count(StepOrder[k]) <= 1
    /\ Len(posted) <= 1

C6_Witness ==
    /\ pc = "exit"
    /\ Len(calls) = 6
    /\ response # <<>>
    /\ response[1].status_code = 422
    /\ Len(posted) = 1

----------------------------------------------------------------------------
(* C7 *)

\* C7: no step removes a local branch, a commit or a remote branch, and the
\* step that creates the pull request leaves the repository and the remote
\* as they were, whether it fails or not.
C7_NoRollback ==
    [][ /\ localBranches \subseteq localBranches'
        /\ commits \subseteq commits'
        /\ remoteBranches \subseteq remoteBranches'
        /\ pc = "create_pr" =>
              /\ localBranches' = localBranches
              /\ commits' = commits
              /\ remoteBranches' = remoteBranches
              /\ head' = head ]_vars

C7_Witness ==
    /\ pc = "exit"
    /\ Succeeded(PUSH)
    /\ response # <<>>
    /\ response[1].status_code # 201
    /\ new_branch \in localBranches
    /\ new_branch \in remoteBranches
    /\ [branch |-> new_branch, message |-> pr_title] \in commits

----------------------------------------------------------------------------
(* C8 *)

TitleUsedEverywhere ==
    /\ \A i \in 1..Len(calls) : calls[i].cmd = COMMIT => calls[i].arg = <<pr_title>>
    /\ \A i \in 1..Len(posted) : posted[i].data.title = pr_title

\* C8 as stated: the title is the prompt when --title is omitted and the
\* --title value otherwise; the commit message and the payload's title are
\* that string.
C8_TitleDefaultsWhenOmitted ==
    pc # "parse_args" =>
        /\ pr_title = IF argv.title = <<>> THEN argv.prompt ELSE argv.title[1]
        /\ TitleUsedEverywhere

\* C8 amended: the title is the prompt when --title is omitted or is the
\* empty string and the --title value otherwise; the commit message and the
\* payload's title are that string.
C8_TitleDefaultsWhenOmittedOrEmpty ==
    pc # "parse_args" =>
        /\ pr_title = IF argv.title = <<>> \/ argv.title = <<"">>
                      THEN argv.prompt ELSE argv.title[1]
        /\ TitleUsedEverywhere

C8_Witness ==
    /\ pc = "exit"
    /\ argv.title = <<"">>
    /\ Succeeded(COMMIT)
    /\ Len(posted) = 1
    /\ posted[1].data.title = argv.prompt

----------------------------------------------------------------------------
(* C9 *)

WellFormedBranch(b) ==
    /\ Len(b) = 9
    /\ b[1] = "gemini-changes-"
    /\ \A i \in 2..9 : b[i] \in LowerHex

BranchUsedEverywhere ==
    /\ new_branch = <<>> => pc = "parse_args" /\ calls = <<>>
    /\ new_branch # <<>> => WellFormedBranch(new_branch)
    /\ \A i \in 1..Len(calls) :
          calls[i].cmd \in {CHECKOUT, PUSH} => calls[i].arg = new_branch
    /\ \A i \in 1..Len(posted) :
          /\ posted[i].data.head = new_branch
          /\ posted[i].data.base = IF argv.branch = <<>> THEN "main" ELSE argv.branch[1]

\* C9: the branch identifier is 'gemini-changes-' followed by 8 lowercase
\* hex digits, exists before any external command runs, never changes once
\* generated, and is the branch given to git checkout -b, to git push and as
\* the payload's head; the payload's base is the --branch value, 'main' by
\* default.
C9_BranchIdentifier ==
    /\ []BranchUsedEverywhere
    /\ [][new_branch # <<>> => new_branch' = new_branch]_vars

C9_Witness ==
    /\ pc = "exit"
    /\ argv.branch = <<>>
    /\ Succeeded(CHECKOUT)
    /\ Succeeded(PUSH)
    /\ Len(posted) = 1
    /\ new_branch[2] = "0"

----------------------------------------------------------------------------
(* C10 *)

\* the URL with its host segment (the two tokens after the scheme) rewritten
\* and everything after it kept
HostRewritten(u) ==
    SubSeq(u, 1, 1) \o <<"api.", "github", ".com", "/repos">> \o SubSeq(u, 4, Len(u))

\* C10 as stated: the endpoint posted to is the repository URL with only its
\* host segment rewritten to the API host segment, the owner/repository path
\* unchanged, and '/pulls' appended.
C10_OnlyHostRewritten ==
    \A i \in 1..Len(posted) :
        posted[i].url = HostRewritten(args.repo) \o <<"/pulls">>

====
